---- MODULE Spec2Model ----
(***************************************************************************)
(* State-machine model of odl/tomo/geometry/geometry.py: the abstract      *)
(* Geometry base class, DivergentBeamGeometry and the AxisOrientedGeometry *)
(* mixin.                                                                  *)
(*                                                                         *)
(* Floating-point numbers are modelled as exact rationals <<n, d>> in      *)
(* lowest terms with d > 0; <<0, 0>> is nan and <<1, 0>>, <<-1, 0>> are    *)
(* +inf and -inf (the results numpy gives for 0/0 and x/0).                *)
(* Angles are indexed by integers k, in increasing order:                  *)
(*   angle(k) = (k \div 2) * pi/2 + (k % 2) * arctan(3/4),                 *)
(* so that cos and sin of every angle are rationals with denominator 5.    *)
(***************************************************************************)
EXTENDS Integers, Sequences, FiniteSets, TLC

VARIABLES objs, heap, ret

vars == <<objs, heap, ret>>

-----------------------------------------------------------------------------
(* Bounds of the model *)

\* raw vector components range over 0..MaxCoord
MaxCoord == 2
\* angle indices range over -1..MaxAngle
MaxAngle == 2
\* number of rows of a batched parameter array
MaxBatch == 3
\* coordinates of the positions the abstract methods return
MaxPos == 1

-----------------------------------------------------------------------------
(* Exact arithmetic standing for numpy's float64 arithmetic *)

Abs(x) == IF x < 0 THEN -x ELSE x

Sign(x) == IF x < 0 THEN -1 ELSE IF x > 0 THEN 1 ELSE 0

RECURSIVE GCD(_, _)
GCD(a, b) == IF b = 0 THEN a ELSE GCD(b, a % b)

NaN == <<0, 0>>

Zero == <<0, 1>>

One == <<1, 1>>

\* the float n/d; a zero divisor gives nan or a signed infinity
Rat(n, d) ==
    IF d = 0 THEN <<Sign(n), 0>>
    ELSE LET g == GCD(Abs(n), Abs(d))
         IN  <<(Sign(d) * n) \div g, Abs(d) \div g>>

FromInt(n) == <<n, 1>>

IsFinite(x) == x[2] # 0

\* No infinity is ever an operand in this model (infinities arise only as
\* final results of a division), so a non-finite operand is always nan.
FAdd(x, y) ==
    IF IsFinite(x) /\ IsFinite(y)
    THEN Rat(x[1] * y[2] + y[1] * x[2], x[2] * y[2]) ELSE NaN

FNeg(x) == IF IsFinite(x) THEN <<-x[1], x[2]>> ELSE NaN

FSub(x, y) == FAdd(x, FNeg(y))

FMul(x, y) ==
    IF IsFinite(x) /\ IsFinite(y)
    THEN Rat(x[1] * y[1], x[2] * y[2]) ELSE NaN

FDiv(x, y) ==
    IF IsFinite(x) /\ IsFinite(y)
    THEN Rat(x[1] * y[2], x[2] * y[1]) ELSE NaN

RECURSIVE FSum(_)
FSum(s) == IF s = <<>> THEN Zero ELSE FAdd(Head(s), FSum(Tail(s)))

IsSquareInt(n) == n >= 0 /\ \E k \in 0..n : k * k = n

ISqrt(n) == CHOOSE k \in 0..n : k * k = n

\* whether the float has a rational square root
IsSquare(x) == IsFinite(x) /\ IsSquareInt(x[1]) /\ IsSquareInt(x[2])

\* A value x / sqrt(sq), the quotient of a float by a Euclidean norm whose
\* square is sq.  It is kept as the pair (num, den2) meaning num/sqrt(den2),
\* reduced to den2 = 1 whenever the norm is rational (this covers a zero
\* norm, where 0/0 is nan and x/0 is infinite).
DivByNorm(x, sq) ==
    IF ~IsFinite(x) \/ ~IsFinite(sq) THEN [num |-> NaN, den2 |-> One]
    ELSE IF IsSquare(sq)
         THEN [num |-> FDiv(x, Rat(ISqrt(sq[1]), ISqrt(sq[2]))), den2 |-> One]
         ELSE [num |-> x, den2 |-> sq]

\* an undivided float as a value of the same shape
Plain(x) == [num |-> x, den2 |-> One]

\* the square of num/sqrt(den2)
SquareOf(q) == FDiv(FMul(q.num, q.num), q.den2)

\* sum of the squares of the entries of a vector of floats
NormSq(v) == FSum([i \in 1..Len(v) |-> FMul(v[i], v[i])])

\* a vector of quotients has Euclidean norm exactly 1
HasUnitNorm(v) == FSum([i \in 1..Len(v) |-> SquareOf(v[i])]) = One

VecOfInts(t) == [i \in 1..Len(t) |-> FromInt(t[i])]

VAdd(u, v) == [i \in 1..Len(u) |-> FAdd(u[i], v[i])]

VSub(u, v) == [i \in 1..Len(u) |-> FSub(u[i], v[i])]

MatVec(m, v) ==
    [i \in 1..Len(m) |-> FSum([j \in 1..Len(v) |-> FMul(m[i][j], v[j])])]


-----------------------------------------------------------------------------
(* Angles: cos and sin as numpy computes them, on the indexed angles *)

QuarterCos(q) == IF q % 4 = 0 THEN 1 ELSE IF q % 4 = 2 THEN -1 ELSE 0

QuarterSin(q) == IF q % 4 = 1 THEN 1 ELSE IF q % 4 = 3 THEN -1 ELSE 0

\* np.cos(angle(k))
Cos(k) ==
    LET c == QuarterCos(k \div 2)
        s == QuarterSin(k \div 2)
    IN  IF k % 2 = 0 THEN FromInt(c) ELSE Rat(4 * c - 3 * s, 5)

\* np.sin(angle(k))
Sin(k) ==
    LET c == QuarterCos(k \div 2)
        s == QuarterSin(k \div 2)
    IN  IF k % 2 = 0 THEN FromInt(s) ELSE Rat(4 * s + 3 * c, 5)

-----------------------------------------------------------------------------
(* The collaborators: parameter domains, sampling grids, detectors *)

\* Python's None, as a value comparable with grids
None == [type |-> "NoneType", coord_vectors |-> <<>>]

IntervalProd(begin, end) == [type |-> "IntervalProd", begin |-> begin, end |-> end]

RegularGrid(cv) == [type |-> "RegularGrid", coord_vectors |-> cv]

TensorGrid(cv) == [type |-> "TensorGrid", coord_vectors |-> cv]

\* isinstance(g, RegularGrid)
IsRegularGrid(g) == g.type = "RegularGrid"

\* isinstance(g, TensorGrid); RegularGrid is a subtype of TensorGrid
IsTensorGrid(g) == g.type \in {"TensorGrid", "RegularGrid"}

\* isinstance(d, IntervalProd)
IsIntervalProd(d) == d.type = "IntervalProd"

\* IntervalProd.ndim
DomNdim(d) == Len(d.begin)

\* A parameter is a scalar or an array of scalars: [arr, vals].
Scalar(x) == [arr |-> FALSE, vals |-> <<x>>]

Array(xs) == [arr |-> TRUE, vals |-> xs]

\* `p in d` for a one-dimensional domain: every value lies in the interval
Contains(d, p) ==
    /\ DomNdim(d) = 1
    /\ \A i \in 1..Len(p.vals) : d.begin[1] <= p.vals[i] /\ p.vals[i] <= d.end[1]

\* d.contains_set(g): every grid point lies in the domain
ContainsSet(d, g) ==
    /\ Len(g.coord_vectors) = DomNdim(d)
    /\ \A a \in 1..DomNdim(d) : \A i \in 1..Len(g.coord_vectors[a]) :
          /\ d.begin[a] <= g.coord_vectors[a][i]
          /\ g.coord_vectors[a][i] <= d.end[a]

\* d.append(e): the product domain, d's parameters first
DomAppend(d, e) == IntervalProd(d.begin \o e.begin, d.end \o e.end)

\* g.append(h): the joined grid, regular when both operands are regular
GridAppend(g, h) ==
    [type |-> IF IsRegularGrid(g) /\ IsRegularGrid(h)
              THEN "RegularGrid" ELSE "TensorGrid",
     coord_vectors |-> g.coord_vectors \o h.coord_vectors]

\* a detector: its parameter domain and its optional sampling grid
Detector(params, param_grid) == [params |-> params, param_grid |-> param_grid]

\* detector.surface(dpar) of a line detector along the first local axis
Surface(dpar) == <<FromInt(dpar), Zero, Zero>>


-----------------------------------------------------------------------------
(* Inputs *)

\* angle_intvl arguments: two angle intervals (one without the angle 0), a
\* 2-dimensional interval product and a value that is no IntervalProd
AngleIntvlArgs ==
    { IntervalProd(<<0>>, <<MaxAngle>>),
      IntervalProd(<<1>>, <<MaxAngle>>),
      IntervalProd(<<0, 0>>, <<MaxAngle, 1>>),
      [type |-> "tuple", begin |-> <<0>>, end |-> <<MaxAngle>>] }

\* agrid arguments: absent, regular, tensor, a grid reaching outside every
\* interval, and an array that is no grid
AgridArgs ==
    { None,
      RegularGrid(<<<<1, 2>>>>),
      TensorGrid(<<<<0, 2>>>>),
      TensorGrid(<<<<1, MaxAngle + 1>>>>),
      [type |-> "ndarray", coord_vectors |-> <<<<1, 2>>>>] }

DetParams == IntervalProd(<<-1>>, <<1>>)

\* detector arguments: with a regular grid, with a tensor grid, unsampled
DetectorArgs ==
    { Detector(DetParams, RegularGrid(<<<<-1, 0, 1>>>>)),
      Detector(DetParams, TensorGrid(<<<<-1, 1>>>>)),
      Detector(DetParams, None) }

\* ndim as the subclass constructors pass it
NdimArgs(cls) == IF cls = "cone" THEN {3} ELSE {2}

Coords == 0..MaxCoord

\* Raw axis arguments: the 2- and 3-element vectors over Coords whose
\* Euclidean norm is rational, so that the normalised axis is exact.
AxisArgs ==
    { v \in ([1..2 -> Coords] \cup [1..3 -> Coords]) :
        IsSquareInt(NormSq(VecOfInts(v))[1]) }

\* motion parameters callers pass, in and out of every domain
AngleArgs == (-1)..(MaxAngle + 1)

\* detector parameters callers pass, in and out of the detector's domain
DparArgs == {-2, 0, 1}

\* the keys callers store entries under in an implementation cache
CacheKeys == {"astra_projector"}

-----------------------------------------------------------------------------
(* Objects *)

\* A freshly allocated instance, before any __init__ has run: no attribute
\* is set (attrs is the set of attributes assigned so far).
NewObject(cls) ==
    [cls |-> cls, status |-> "new", done |-> {}, attrs |-> {},
     ndim |-> 0, implementation_cache |-> 0,
     motion_params |-> IntervalProd(<<>>, <<>>), motion_grid |-> None,
     detector |-> Detector(IntervalProd(<<>>, <<>>), None), axis |-> <<>>]

\* the __init__ methods a class runs: the composite runs both bases'
Bases(cls) ==
    IF cls = "cone" THEN {"DivergentBeamGeometry", "AxisOrientedGeometry"}
    ELSE IF cls = "fan" THEN {"DivergentBeamGeometry"}
    ELSE {"Geometry"}

\* the instance after base class `base` finished its __init__
Finished(o, base) ==
    [o EXCEPT !.done = @ \cup {base},
              !.status = IF Bases(o.cls) \subseteq (o.done \cup {base})
                         THEN "ok" ELSE "new"]

\* the instance after an __init__ raised
Failed(o) == [o EXCEPT !.status = "failed"]

NoValue == <<>>

\* the outcome of a call: what was called with what, the exception raised
\* ("none" when it returned), the value returned and the abstract methods
\* and membership tests evaluated, in order
Outcome(op, args, exc, value, log) ==
    [op |-> op, args |-> args, exc |-> exc, value |-> value, log |-> log]


-----------------------------------------------------------------------------
(* Geometry *)

\* GeometryInit with the cache as one dict shared by all instances (a
\* class-level dict) instead of a dict allocated per instance
GeometryInitSharedCache(o, hp, ndim) ==
    [obj |-> [o EXCEPT !.ndim = ndim,
                       !.implementation_cache = 1,
                       !.attrs = @ \cup {"_ndim", "_implementation_cache"}],
     heap |-> IF hp = <<>> THEN <<{}>> ELSE hp,
     exc |-> "none"]

\* Geometry.__init__: stores ndim and a dict allocated by this call.  The
\* heap is the sequence of all dicts allocated so far; a dict is the set of
\* keys stored in it.
GeometryInit(o, hp, ndim) ==
    [obj |-> [o EXCEPT !.ndim = ndim,
                       !.implementation_cache = Len(hp) + 1,
                       !.attrs = @ \cup {"_ndim", "_implementation_cache"}],
     heap |-> Append(hp, {}),
     exc |-> "none"]

\* motion_params and detector of the direct Geometry subclass (abstract
\* properties of Geometry, supplied by that subclass)
ParallelMotionParams == IntervalProd(<<0>>, <<MaxAngle>>)

ParallelDetector == Detector(DetParams, RegularGrid(<<<<-1, 0, 1>>>>))

\* motion_params: DivergentBeamGeometry returns the stored attribute
MotionParams(o) ==
    IF o.cls = "parallel" THEN ParallelMotionParams ELSE o.motion_params

\* detector
DetectorOf(o) == IF o.cls = "parallel" THEN ParallelDetector ELSE o.detector

\* motion_grid: None in Geometry, the stored attribute in DivergentBeamGeometry
MotionGrid(o) == IF o.cls = "parallel" THEN None ELSE o.motion_grid

\* has_motion_sampling
HasMotionSampling(o) == MotionGrid(o) # None

\* det_params
DetParamsOf(o) == DetectorOf(o).params

\* det_grid
DetGrid(o) == DetectorOf(o).param_grid

\* has_det_sampling
HasDetSampling(o) == DetGrid(o) # None

\* params
Params(o) == DomAppend(MotionParams(o), DetParamsOf(o))

\* Grid always appending to a rebuilt plain tensor grid
GridAlwaysRebuilt(o) ==
    LET left == TensorGrid(MotionGrid(o).coord_vectors)
    IN  IF MotionGrid(o) = None
        THEN [exc |-> "AttributeError", value |-> NoValue, left |-> None]
        ELSE IF DetGrid(o) = None
        THEN [exc |-> "TypeError", value |-> NoValue, left |-> left]
        ELSE [exc |-> "none", value |-> GridAppend(left, DetGrid(o)),
              left |-> left]

\* grid.  left is the grid det_grid is appended to.  Reading coord_vectors
\* of None raises AttributeError; appending None to a grid raises TypeError.
Grid(o) ==
    LET left == IF IsRegularGrid(MotionGrid(o)) /\ IsRegularGrid(DetGrid(o))
                THEN MotionGrid(o)
                ELSE TensorGrid(MotionGrid(o).coord_vectors)
    IN  IF MotionGrid(o) = None
        THEN [exc |-> "AttributeError", value |-> NoValue, left |-> None]
        ELSE IF DetGrid(o) = None
        THEN [exc |-> "TypeError", value |-> NoValue, left |-> left]
        ELSE [exc |-> "none", value |-> GridAppend(left, DetGrid(o)),
              left |-> left]

-----------------------------------------------------------------------------
(* DivergentBeamGeometry *)

\* DivergentBeamGeometryInit without the containment check
DivergentBeamGeometryInitNoContainment(o, hp, ndim, angle_intvl, detector, agrid) ==
    IF ~(IsIntervalProd(angle_intvl) /\ DomNdim(angle_intvl) = 1)
    THEN [obj |-> o, heap |-> hp, exc |-> "TypeError"]
    ELSE LET o1 == [o EXCEPT !.motion_params = angle_intvl,
                             !.motion_grid = agrid,
                             !.detector = detector,
                             !.attrs = @ \cup {"_motion_params", "_motion_grid",
                                               "_detector"}]
         IN  IF agrid # None /\ ~IsTensorGrid(agrid)
             THEN [obj |-> o1, heap |-> hp, exc |-> "TypeError"]
             ELSE GeometryInit(o1, hp, ndim)

\* DivergentBeamGeometryInit with every check made before the first
\* assignment
DivergentBeamGeometryInitChecksFirst(o, hp, ndim, angle_intvl, detector, agrid) ==
    IF ~(IsIntervalProd(angle_intvl) /\ DomNdim(angle_intvl) = 1)
    THEN [obj |-> o, heap |-> hp, exc |-> "TypeError"]
    ELSE IF agrid # None /\ ~IsTensorGrid(agrid)
    THEN [obj |-> o, heap |-> hp, exc |-> "TypeError"]
    ELSE IF agrid # None /\ ~ContainsSet(angle_intvl, agrid)
    THEN [obj |-> o, heap |-> hp, exc |-> "ValueError"]
    ELSE GeometryInit([o EXCEPT !.motion_params = angle_intvl,
                                !.motion_grid = agrid,
                                !.detector = detector,
                                !.attrs = @ \cup {"_motion_params",
                                                  "_motion_grid", "_detector"}],
                      hp, ndim)

\* DivergentBeamGeometry.__init__
DivergentBeamGeometryInit(o, hp, ndim, angle_intvl, detector, agrid) ==
    IF ~(IsIntervalProd(angle_intvl) /\ DomNdim(angle_intvl) = 1)
    THEN [obj |-> o, heap |-> hp, exc |-> "TypeError"]
    ELSE LET o1 == [o EXCEPT !.motion_params = angle_intvl,
                             !.motion_grid = agrid,
                             !.detector = detector,
                             !.attrs = @ \cup {"_motion_params", "_motion_grid",
                                               "_detector"}]
         IN  IF agrid # None /\ ~IsTensorGrid(agrid)
             THEN [obj |-> o1, heap |-> hp, exc |-> "TypeError"]
             ELSE IF agrid # None /\ ~ContainsSet(angle_intvl, agrid)
             THEN [obj |-> o1, heap |-> hp, exc |-> "ValueError"]
             ELSE GeometryInit(o1, hp, ndim)

-----------------------------------------------------------------------------
(* AxisOrientedGeometry *)

\* the number of components an axis must have
AxisLen == 3

\* AxisOrientedGeometryInit storing the raw vector, checked but not
\* normalised
AxisOrientedGeometryInitUnnormalized(o, axis) ==
    LET o1 == [o EXCEPT !.axis = [i \in 1..Len(axis) |-> Plain(FromInt(axis[i]))],
                        !.attrs = @ \cup {"_axis"}]
    IN  IF Len(o1.axis) # AxisLen
        THEN [obj |-> o1, exc |-> "ValueError"]
        ELSE [obj |-> o1, exc |-> "none"]

\* AxisOrientedGeometry.__init__
AxisOrientedGeometryInit(o, axis) ==
    LET nrm2 == NormSq(VecOfInts(axis))
        o1 == [o EXCEPT !.axis = [i \in 1..Len(axis) |->
                                     DivByNorm(FromInt(axis[i]), nrm2)],
                        !.attrs = @ \cup {"_axis"}]
    IN  IF Len(o1.axis) # AxisLen
        THEN [obj |-> o1, exc |-> "ValueError"]
        ELSE [obj |-> o1, exc |-> "none"]

\* the entries of the stored axis as floats
AxisOf(o) == [i \in 1..Len(o.axis) |-> o.axis[i].num]

\* RotationMatrix with the sine and the cosine exchanged
RotationMatrixSinCosSwapped(o, angle) ==
    IF ~Contains(MotionParams(o), Scalar(angle))
    THEN [exc |-> "ValueError", value |-> NoValue]
    ELSE LET axis == AxisOf(o)
             cross_mat == << <<Zero, FNeg(axis[3]), axis[2]>>,
                             <<axis[3], Zero, FNeg(axis[1])>>,
                             <<FNeg(axis[2]), axis[1], Zero>> >>
             cos_ang == Sin(angle)
             sin_ang == Cos(angle)
         IN  [exc |-> "none",
              value |-> [i \in 1..3 |-> [j \in 1..3 |->
                  FAdd(FAdd(FMul(cos_ang, IF i = j THEN One ELSE Zero),
                            FMul(FSub(One, cos_ang), FMul(axis[i], axis[j]))),
                       FMul(sin_ang, cross_mat[i][j]))]]]

\* RotationMatrix with the cross-product matrix transposed (a rotation by
\* the left-hand rule)
RotationMatrixLeftHanded(o, angle) ==
    IF ~Contains(MotionParams(o), Scalar(angle))
    THEN [exc |-> "ValueError", value |-> NoValue]
    ELSE LET axis == AxisOf(o)
             cross_mat == << <<Zero, axis[3], FNeg(axis[2])>>,
                             <<FNeg(axis[3]), Zero, axis[1]>>,
                             <<axis[2], FNeg(axis[1]), Zero>> >>
         IN  [exc |-> "none",
              value |-> [i \in 1..3 |-> [j \in 1..3 |->
                  FAdd(FAdd(FMul(Cos(angle), IF i = j THEN One ELSE Zero),
                            FMul(FSub(One, Cos(angle)), FMul(axis[i], axis[j]))),
                       FMul(Sin(angle), cross_mat[i][j]))]]]

\* AxisOrientedGeometry.rotation_matrix
RotationMatrix(o, angle) ==
    IF ~Contains(MotionParams(o), Scalar(angle))
    THEN [exc |-> "ValueError", value |-> NoValue]
    ELSE LET axis == AxisOf(o)
             cross_mat == << <<Zero, FNeg(axis[3]), axis[2]>>,
                             <<axis[3], Zero, FNeg(axis[1])>>,
                             <<FNeg(axis[2]), axis[1], Zero>> >>
             dy_mat == [i \in 1..3 |-> [j \in 1..3 |-> FMul(axis[i], axis[j])]]
             id_mat == [i \in 1..3 |-> [j \in 1..3 |->
                                           IF i = j THEN One ELSE Zero]]
             cos_ang == Cos(angle)
             sin_ang == Sin(angle)
         IN  [exc |-> "none",
              value |-> [i \in 1..3 |-> [j \in 1..3 |->
                  FAdd(FAdd(FMul(cos_ang, id_mat[i][j]),
                            FMul(FSub(One, cos_ang), dy_mat[i][j])),
                       FMul(sin_ang, cross_mat[i][j]))]]]


-----------------------------------------------------------------------------
(* Arrays of vectors and det_to_src *)

\* A numpy array of vectors: nd = 1 is a single vector of shape (D,), held
\* as one row; nd = 2 is an array of shape (N, D), one vector per row.
Vector(v) == [nd |-> 1, rows |-> <<v>>]

Batch(rows) == [nd |-> 2, rows |-> rows]

ArrAdd(a, b) ==
    [nd |-> a.nd, rows |-> [i \in 1..Len(a.rows) |-> VAdd(a.rows[i], b.rows[i])]]

ArrSub(a, b) ==
    [nd |-> a.nd, rows |-> [i \in 1..Len(a.rows) |-> VSub(a.rows[i], b.rows[i])]]

\* the array as returned without normalisation
Undivided(a) ==
    [nd |-> a.nd,
     rows |-> [i \in 1..Len(a.rows) |->
                  [j \in 1..Len(a.rows[i]) |-> Plain(a.rows[i][j])]]]

\* np.linalg.norm(vec, axis=-1), as the squares of the norms: a scalar for
\* a single vector, an array of shape (N,) for an array of shape (N, D)
NormsSq(vec) == [i \in 1..Len(vec.rows) |-> NormSq(vec.rows[i])]

\* Normalize dividing by the squared norm (the square root left out)
NormalizeBySquaredNorm(vec) ==
    LET n2 == NormsSq(vec)
        N == Len(vec.rows)
        D == Len(vec.rows[1])
    IN  IF vec.nd = 1
        THEN [exc |-> "none",
              value |-> [nd |-> 1,
                         rows |-> << [j \in 1..D |->
                                        DivByNorm(vec.rows[1][j],
                                                  FMul(n2[1], n2[1]))] >>]]
        ELSE IF N # D /\ N # 1
        THEN [exc |-> "ValueError", value |-> NoValue]
        ELSE [exc |-> "none",
              value |-> [nd |-> 2,
                         rows |-> [i \in 1..N |-> [j \in 1..D |->
                             DivByNorm(vec.rows[i][j],
                                       FMul(n2[IF N = 1 THEN 1 ELSE j],
                                            n2[IF N = 1 THEN 1 ELSE j]))]]]]

\* vec /= np.linalg.norm(vec, axis=-1).  For shape (N, D) the norms have
\* shape (N,) and broadcast against the trailing axis of vec: the in-place
\* division is possible only when N = D or N = 1, and then divides entry
\* (i, j) by norm j (norm 1 when N = 1); otherwise numpy raises ValueError.
Normalize(vec) ==
    LET n2 == NormsSq(vec)
        N == Len(vec.rows)
        D == Len(vec.rows[1])
    IN  IF vec.nd = 1
        THEN [exc |-> "none",
              value |-> [nd |-> 1,
                         rows |-> << [j \in 1..D |->
                                        DivByNorm(vec.rows[1][j], n2[1])] >>]]
        ELSE IF N # D /\ N # 1
        THEN [exc |-> "ValueError", value |-> NoValue]
        ELSE [exc |-> "none",
              value |-> [nd |-> 2,
                         rows |-> [i \in 1..N |-> [j \in 1..D |->
                             DivByNorm(vec.rows[i][j],
                                       n2[IF N = 1 THEN 1 ELSE j])]]]]

\* Geometry.det_point_position.  det_refpoint is abstract: ref is its
\* result.  The composite class takes rotation_matrix from
\* AxisOrientedGeometry; the other classes supply their own, and rotsurf is
\* then the result of rotation_matrix(mpar).dot(detector.surface(dpar)).
DetPointPosition(o, mpar, dpar, ref, rotsurf) ==
    LET rot == RotationMatrix(o, mpar.vals[1])
    IN  IF o.cls # "cone"
        THEN [exc |-> "none", value |-> ArrAdd(ref, rotsurf)]
        ELSE IF rot.exc # "none"
        THEN [exc |-> rot.exc, value |-> NoValue]
        ELSE [exc |-> "none",
              value |-> ArrAdd(ref, Vector(MatVec(rot.value,
                                                  Surface(dpar.vals[1]))))]

\* DetToSrc testing dpar before mpar
DetToSrcDparFirst(o, mpar, dpar, normalized, src, ref, rotsurf) ==
    LET args == <<mpar, dpar, normalized>>
        dp == DetPointPosition(o, mpar, dpar, ref, rotsurf)
        vec == ArrSub(src, dp.value)
        nrm == Normalize(vec)
        full == << <<"dpar in det_params">>, <<"mpar in motion_params">>,
                   <<"src_position", src>>, <<"det_point_position", dp.value>> >>
    IN  IF ~Contains(DetParamsOf(o), dpar)
        THEN Outcome("det_to_src", args, "ValueError", NoValue,
                     << <<"dpar in det_params">> >>)
        ELSE IF ~Contains(MotionParams(o), mpar)
        THEN Outcome("det_to_src", args, "ValueError", NoValue,
                     << <<"dpar in det_params">>, <<"mpar in motion_params">> >>)
        ELSE IF dp.exc # "none"
        THEN Outcome("det_to_src", args, dp.exc, NoValue, SubSeq(full, 1, 3))
        ELSE IF normalized
        THEN Outcome("det_to_src", args, nrm.exc, nrm.value, full)
        ELSE Outcome("det_to_src", args, "none", Undivided(vec), full)

\* DivergentBeamGeometry.det_to_src.  src_position is abstract: src is its
\* result.  The log lists what was evaluated, in order.
DetToSrc(o, mpar, dpar, normalized, src, ref, rotsurf) ==
    LET args == <<mpar, dpar, normalized>>
        dp == DetPointPosition(o, mpar, dpar, ref, rotsurf)
        vec == ArrSub(src, dp.value)
        nrm == Normalize(vec)
        full == << <<"mpar in motion_params">>, <<"dpar in det_params">>,
                   <<"src_position", src>>, <<"det_point_position", dp.value>> >>
    IN  IF ~Contains(MotionParams(o), mpar)
        THEN Outcome("det_to_src", args, "ValueError", NoValue,
                     << <<"mpar in motion_params">> >>)
        ELSE IF ~Contains(DetParamsOf(o), dpar)
        THEN Outcome("det_to_src", args, "ValueError", NoValue,
                     << <<"mpar in motion_params">>, <<"dpar in det_params">> >>)
        ELSE IF dp.exc # "none"
        THEN Outcome("det_to_src", args, dp.exc, NoValue, SubSeq(full, 1, 3))
        ELSE IF normalized
        THEN Outcome("det_to_src", args, nrm.exc, nrm.value, full)
        ELSE Outcome("det_to_src", args, "none", Undivided(vec), full)

\* Geometry.det_to_src, which a direct subclass of Geometry inherits
GeometryDetToSrc(o, mpar, dpar, normalized) ==
    Outcome("det_to_src", <<mpar, dpar, normalized>>, "NotImplementedError",
            NoValue, <<>>)


-----------------------------------------------------------------------------
(* The state machine.  objs holds two instances: "geo", of a concrete
   subclass of DivergentBeamGeometry (class "cone" also mixes in
   AxisOrientedGeometry, class "fan" supplies its own vectorised
   rotation_matrix), and "par", of a direct subclass of Geometry.  ret is
   the outcome of the call last made, until the caller discards it. *)

Ids == {"geo", "par"}

Idle == Outcome("idle", <<>>, "none", NoValue, <<>>)

\* the outcome of a call on instance id
On(id, outcome) == [self |-> id] @@ outcome

Init ==
    /\ objs \in { [id \in Ids |-> IF id = "geo" THEN NewObject(c)
                                  ELSE NewObject("parallel")] :
                  c \in {"cone", "fan"} }
    /\ heap = <<>>
    /\ ret = On("geo", Idle)

\* The program constructs "par" first, then "geo".
CanInit(id, base) ==
    /\ ret.op = "idle"
    /\ objs[id].status = "new"
    /\ id = "geo" => objs["par"].status = "ok"
    /\ base \in Bases(objs[id].cls) \ objs[id].done

\* Methods are called once both instances exist.
CanCall(id) ==
    /\ ret.op = "idle"
    /\ objs[id].status = "ok"
    /\ objs["geo"].status = "ok"

\* the subclass constructor of "par" calls Geometry.__init__
Geometry_init ==
    /\ CanInit("par", "Geometry")
    /\ \E ndim \in NdimArgs("parallel") :
         LET r == GeometryInit(objs["par"], heap, ndim)
         IN  /\ objs' = [objs EXCEPT !["par"] = Finished(r.obj, "Geometry")]
             /\ heap' = r.heap
             /\ ret' = On("par", Outcome("Geometry.__init__", <<ndim>>, r.exc,
                                         NoValue, <<>>))

\* the subclass constructor of "geo" calls DivergentBeamGeometry.__init__
DivergentBeamGeometry_init ==
    /\ CanInit("geo", "DivergentBeamGeometry")
    /\ \E ndim \in NdimArgs(objs["geo"].cls), angle_intvl \in AngleIntvlArgs,
          detector \in DetectorArgs, agrid \in AgridArgs :
         LET r == DivergentBeamGeometryInit(objs["geo"], heap, ndim,
                                            angle_intvl, detector, agrid)
         IN  /\ objs' = [objs EXCEPT !["geo"] =
                            IF r.exc = "none"
                            THEN Finished(r.obj, "DivergentBeamGeometry")
                            ELSE Failed(r.obj)]
             /\ heap' = r.heap
             /\ ret' = On("geo", Outcome("DivergentBeamGeometry.__init__",
                                         <<ndim, angle_intvl, detector, agrid>>,
                                         r.exc, NoValue, <<>>))

\* the subclass constructor of "geo" calls AxisOrientedGeometry.__init__
AxisOrientedGeometry_init ==
    /\ CanInit("geo", "AxisOrientedGeometry")
    /\ \E axis \in AxisArgs :
         LET r == AxisOrientedGeometryInit(objs["geo"], axis)
         IN  /\ objs' = [objs EXCEPT !["geo"] =
                            IF r.exc = "none"
                            THEN Finished(r.obj, "AxisOrientedGeometry")
                            ELSE Failed(r.obj)]
             /\ ret' = On("geo", Outcome("AxisOrientedGeometry.__init__",
                                         <<axis>>, r.exc, NoValue, <<>>))
             /\ UNCHANGED heap

\* the points the abstract src_position and det_refpoint may return
Points(D) ==
    { [i \in 1..D |-> FromInt(IF i = 2 THEN y ELSE 0)] : y \in 0..MaxPos }

\* the detector reference point of the subclasses: the origin
RefPoints(D) == { [i \in 1..D |-> Zero] }

Dim(cls) == IF cls = "cone" THEN 3 ELSE 2

\* rotation_matrix(mpar).dot(detector.surface(dpar)) of class "fan", one
\* row per detector parameter
FanRotSurf(dpar) == [i \in 1..Len(dpar.vals) |-> <<FromInt(dpar.vals[i]), Zero>>]

\* det_to_src with scalar parameters
det_to_src ==
    /\ CanCall("geo")
    /\ \E m \in AngleArgs, d \in DparArgs, normalized \in BOOLEAN,
          src \in Points(Dim(objs["geo"].cls)),
          ref \in RefPoints(Dim(objs["geo"].cls)) :
         ret' = On("geo", DetToSrc(objs["geo"], Scalar(m), Scalar(d), normalized,
                                   Vector(src), Vector(ref),
                                   Vector(FanRotSurf(Scalar(d))[1])))
    /\ UNCHANGED <<objs, heap>>

\* the source positions a batched src_position may return, row by row
BatchSrcRows == { <<FromInt(3), FromInt(5)>>, <<Zero, FromInt(2)>> }

\* det_to_src with array parameters of N elements, on the class whose
\* abstract methods are vectorised
det_to_src_batched ==
    /\ CanCall("geo")
    /\ objs["geo"].cls = "fan"
    /\ \E N \in 1..MaxBatch :
       \E m0 \in {1, MaxAngle}, d \in DparArgs, normalized \in BOOLEAN,
          src \in [1..N -> BatchSrcRows] :
         LET mpar == Array([i \in 1..N |-> m0 + i - 1])
             dpar == Array([i \in 1..N |-> d])
             ref == Batch([i \in 1..N |-> <<Zero, One>>])
         IN  ret' = On("geo", DetToSrc(objs["geo"], mpar, dpar, normalized,
                                       Batch(src), ref, Batch(FanRotSurf(dpar))))
    /\ UNCHANGED <<objs, heap>>

\* det_to_src on the direct subclass of Geometry
Geometry_det_to_src ==
    /\ CanCall("par")
    /\ \E m \in AngleArgs, d \in DparArgs, normalized \in BOOLEAN :
         ret' = On("par", GeometryDetToSrc(objs["par"], Scalar(m), Scalar(d),
                                           normalized))
    /\ UNCHANGED <<objs, heap>>

\* det_point_position on the composite class
det_point_position ==
    /\ CanCall("geo")
    /\ objs["geo"].cls = "cone"
    /\ \E m \in AngleArgs, d \in DparArgs, ref \in RefPoints(3) :
         LET r == DetPointPosition(objs["geo"], Scalar(m), Scalar(d),
                                   Vector(ref), Vector(ref))
         IN  ret' = On("geo", Outcome("det_point_position", <<m, d>>, r.exc,
                                      r.value, << <<"det_refpoint", ref>> >>))
    /\ UNCHANGED <<objs, heap>>

\* rotation_matrix on the composite class
rotation_matrix ==
    /\ CanCall("geo")
    /\ objs["geo"].cls = "cone"
    /\ \E angle \in AngleArgs :
         LET r == RotationMatrix(objs["geo"], angle)
         IN  ret' = On("geo", Outcome("rotation_matrix", <<angle>>, r.exc,
                                      r.value, <<>>))
    /\ UNCHANGED <<objs, heap>>

\* the property grid
grid ==
    /\ \E id \in Ids :
         /\ CanCall(id)
         /\ LET r == Grid(objs[id])
            IN  ret' = On(id, Outcome("grid", <<>>, r.exc, r.value,
                                     << <<"left operand", r.left>> >>))
    /\ UNCHANGED <<objs, heap>>

\* the properties that cannot raise
Property(o, name) ==
    CASE name = "ndim" -> o.ndim
      [] name = "implementation_cache" -> o.implementation_cache
      [] name = "motion_params" -> MotionParams(o)
      [] name = "motion_grid" -> MotionGrid(o)
      [] name = "has_motion_sampling" -> HasMotionSampling(o)
      [] name = "det_params" -> DetParamsOf(o)
      [] name = "det_grid" -> DetGrid(o)
      [] name = "has_det_sampling" -> HasDetSampling(o)
      [] name = "params" -> Params(o)
      [] name = "axis" -> o.axis

PropertyNames(cls) ==
    {"ndim", "implementation_cache", "motion_params", "motion_grid",
     "has_motion_sampling", "det_params", "det_grid", "has_det_sampling",
     "params"} \cup (IF cls = "cone" THEN {"axis"} ELSE {})

read_property ==
    /\ \E id \in Ids :
         /\ CanCall(id)
         /\ \E name \in PropertyNames(objs[id].cls) :
              ret' = On(id, Outcome(name, <<>>, "none",
                                    Property(objs[id], name), <<>>))
    /\ UNCHANGED <<objs, heap>>

\* a caller stores an entry in an instance's implementation_cache
cache_store ==
    /\ \E id \in Ids, key \in CacheKeys :
         /\ CanCall(id)
         /\ heap' = [heap EXCEPT ![objs[id].implementation_cache] = @ \cup {key}]
         /\ ret' = On(id, Outcome("implementation_cache[key] = value", <<key>>,
                                  "none", NoValue, <<>>))
    /\ UNCHANGED objs

\* the caller is done with the outcome of the last call
discard ==
    /\ ret.op # "idle"
    /\ ret' = On(ret.self, Idle)
    /\ UNCHANGED <<objs, heap>>

Next ==
    \/ Geometry_init
    \/ DivergentBeamGeometry_init
    \/ AxisOrientedGeometry_init
    \/ det_to_src
    \/ det_to_src_batched
    \/ Geometry_det_to_src
    \/ det_point_position
    \/ rotation_matrix
    \/ grid
    \/ read_property
    \/ cache_store
    \/ discard

Spec == Init /\ [][Next]_vars


-----------------------------------------------------------------------------
(* Properties *)

Geo == objs["geo"]

Par == objs["par"]

\* the call last made was `op` on instance id
Called(op, id) == ret.op = op /\ ret.self = id

FiniteVec(v) == \A i \in 1..Len(v) : IsFinite(v[i])

\* the parameter lies in the one-dimensional interval
InDomain(d, p) ==
    \A i \in 1..Len(p.vals) : d.begin[1] <= p.vals[i] /\ p.vals[i] <= d.end[1]

MparIn == InDomain(Geo.motion_params, ret.args[1])

DparIn == InDomain(Geo.detector.params, ret.args[2])

\* C1: det_to_src with mpar outside motion_params or dpar outside
\* det_params raises ValueError and returns nothing; the mpar test comes
\* first and neither src_position nor det_point_position has been evaluated
\* when the error is raised.
C1_DetToSrcDomainChecks ==
    Called("det_to_src", "geo") =>
        /\ ~MparIn => /\ ret.exc = "ValueError"
                      /\ ret.log = << <<"mpar in motion_params">> >>
                      /\ ret.value = NoValue
        /\ (MparIn /\ ~DparIn) =>
                      /\ ret.exc = "ValueError"
                      /\ ret.log = << <<"mpar in motion_params">>,
                                      <<"dpar in det_params">> >>
                      /\ ret.value = NoValue
        /\ (MparIn /\ DparIn) =>
                      /\ Len(ret.log) >= 3
                      /\ ret.log[1] = <<"mpar in motion_params">>
                      /\ ret.log[2] = <<"dpar in det_params">>

\* a call with mpar in the domain and dpar outside it has raised
C1_Witness ==
    /\ Called("det_to_src", "geo")
    /\ MparIn /\ ~DparIn
    /\ ret.exc = "ValueError"

\* the arguments of the DivergentBeamGeometry.__init__ call last made
InitAngleIntvl == ret.args[2]

InitAgrid == ret.args[4]

AngleIntvlOk == InitAngleIntvl.type = "IntervalProd" /\ Len(InitAngleIntvl.begin) = 1

AgridIsTensor == InitAgrid.type \in {"TensorGrid", "RegularGrid"}

AgridContained ==
    \A i \in 1..Len(InitAgrid.coord_vectors[1]) :
        /\ InitAngleIntvl.begin[1] <= InitAgrid.coord_vectors[1][i]
        /\ InitAgrid.coord_vectors[1][i] <= InitAngleIntvl.end[1]

\* C2: DivergentBeamGeometry.__init__ succeeds exactly when the angle
\* domain is a 1-dimensional IntervalProd and the grid is absent or a tensor
\* grid contained in the domain; it raises TypeError for a domain that is
\* not 1-dimensional or a grid that is no tensor grid, and ValueError for a
\* tensor grid not contained in the domain.
C2_DivergentBeamInitOutcome ==
    ret.op = "DivergentBeamGeometry.__init__" =>
        /\ ret.exc = "none" <=>
              /\ AngleIntvlOk
              /\ InitAgrid = None \/ (AgridIsTensor /\ AgridContained)
        /\ ~AngleIntvlOk => ret.exc = "TypeError"
        /\ (AngleIntvlOk /\ InitAgrid # None /\ ~AgridIsTensor) =>
              ret.exc = "TypeError"
        /\ (AngleIntvlOk /\ InitAgrid # None /\ AgridIsTensor /\ ~AgridContained) =>
              ret.exc = "ValueError"
        /\ ret.exc = "none" => "DivergentBeamGeometry" \in Geo.done
        /\ ret.exc # "none" => Geo.status = "failed"

\* a construction with a grid has succeeded
C2_Witness ==
    /\ ret.op = "DivergentBeamGeometry.__init__"
    /\ ret.exc = "none"
    /\ InitAgrid # None
    /\ Geo.motion_grid = InitAgrid

\* the DivergentBeamGeometry constructor failed on one of its grid checks
FailedOnGrid ==
    /\ ret.op = "DivergentBeamGeometry.__init__"
    /\ ret.exc # "none"
    /\ AngleIntvlOk

\* the AxisOrientedGeometry constructor failed on its 3-component check
FailedOnAxis ==
    /\ ret.op = "AxisOrientedGeometry.__init__"
    /\ ret.exc # "none"

GeometryAttrs == {"_ndim", "_implementation_cache"}

DivergentBeamAttrs == {"_motion_params", "_motion_grid", "_detector"}

\* C3 as claimed: a constructor that fails on the grid checks or on the
\* 3-component check has assigned none of the fields.
C3_NoPartialMutation ==
    /\ FailedOnGrid => Geo.attrs \cap (DivergentBeamAttrs \cup GeometryAttrs) = {}
    /\ FailedOnAxis => "_axis" \notin Geo.attrs

\* C3 amended: a DivergentBeamGeometry constructor that fails on the grid
\* checks has assigned motion_params, motion_grid and detector (to its
\* arguments) but neither ndim nor implementation_cache, and has allocated
\* no dict; one that fails on the angle-domain check has assigned nothing;
\* an AxisOrientedGeometry constructor that fails on the 3-component check
\* has assigned axis.
C3_PartialMutation ==
    /\ FailedOnGrid =>
          /\ DivergentBeamAttrs \subseteq Geo.attrs
          /\ Geo.attrs \cap GeometryAttrs = {}
          /\ Geo.motion_params = ret.args[2]
          /\ Geo.detector = ret.args[3]
          /\ Geo.motion_grid = ret.args[4]
          /\ Len(heap) = 1
    /\ (ret.op = "DivergentBeamGeometry.__init__" /\ ~AngleIntvlOk) =>
          Geo.attrs \cap (DivergentBeamAttrs \cup GeometryAttrs) = {}
    /\ FailedOnAxis =>
          /\ "_axis" \in Geo.attrs
          /\ Len(Geo.axis) = Len(ret.args[1])
          /\ Len(Geo.axis) # 3

\* a constructor failed on the containment check with the grid stored
C3_Witness ==
    /\ FailedOnGrid
    /\ ret.exc = "ValueError"
    /\ Geo.motion_grid = ret.args[4]


\* det_to_src was called with scalar parameters inside both domains
ScalarInDomain ==
    /\ Called("det_to_src", "geo")
    /\ ~ret.args[1].arr
    /\ MparIn /\ DparIn

\* the difference src_position(mpar) - det_point_position(mpar, dpar) of
\* the values the call obtained, row i
Difference(i) == VSub(ret.log[3][2].rows[i], ret.log[4][2].rows[i])

\* the vector v divided by its own Euclidean norm
Unit(v) == [j \in 1..Len(v) |-> DivByNorm(v[j], NormSq(v))]

\* C4 as claimed: for every in-domain pair (with finite positions), the
\* normalised det_to_src is the difference of source position and detector
\* point divided by its norm, and has unit norm.
C4_AlwaysUnitNorm ==
    (ScalarInDomain /\ ret.args[3]) =>
        /\ ret.exc = "none"
        /\ Len(ret.log) = 4
        /\ FiniteVec(Difference(1)) =>
              /\ ret.value.rows[1] = Unit(Difference(1))
              /\ HasUnitNorm(ret.value.rows[1])

\* C4 amended: for every in-domain pair at which the source position and
\* the detector point are finite and differ, the normalised det_to_src is
\* their difference divided by its norm, and has unit norm; where they
\* coincide, every component of the result is nan.
C4_UnitNormUnlessCoincident ==
    (ScalarInDomain /\ ret.args[3]) =>
        /\ ret.exc = "none"
        /\ Len(ret.log) = 4
        /\ (FiniteVec(Difference(1)) /\ NormSq(Difference(1)) # Zero) =>
              /\ ret.value.rows[1] = Unit(Difference(1))
              /\ HasUnitNorm(ret.value.rows[1])
        /\ (FiniteVec(Difference(1)) /\ NormSq(Difference(1)) = Zero) =>
              \A j \in 1..Len(ret.value.rows[1]) :
                  ret.value.rows[1][j].num = NaN

\* a normalised direction with an irrational norm was returned
C4_Witness ==
    /\ ScalarInDomain /\ ret.args[3]
    /\ ret.exc = "none"
    /\ FiniteVec(Difference(1))
    /\ ~IsSquare(NormSq(Difference(1)))
    /\ HasUnitNorm(ret.value.rows[1])

\* C5 as claimed: with array parameters, every row of the result is the
\* corresponding row of the difference divided by that row's own norm, for
\* every number of rows and every row length.
C5_RowsNormalizedIndependently ==
    (Called("det_to_src", "geo") /\ ret.args[1].arr /\ MparIn /\ DparIn
        /\ ret.args[3]) =>
        /\ ret.exc = "none"
        /\ \A i \in 1..Len(ret.args[1].vals) :
              ret.value.rows[i] = Unit(Difference(i))

\* the raw vector of the AxisOrientedGeometry.__init__ call last made
RawAxis == ret.args[1]

RawNorm == FromInt(ISqrt(NormSq(VecOfInts(RawAxis))[1]))

\* the stored axis has 3 components of unit norm, the raw vector over its norm
AxisIsNormalizedRaw ==
    /\ ret.exc = "none"
    /\ "AxisOrientedGeometry" \in Geo.done
    /\ Len(Geo.axis) = 3
    /\ HasUnitNorm(Geo.axis)
    /\ \A i \in 1..3 : /\ Geo.axis[i].den2 = One
                       /\ FMul(Geo.axis[i].num, RawNorm) = FromInt(RawAxis[i])

AxisInitFailed == ret.exc = "ValueError" /\ Geo.status = "failed"

\* C6 as claimed: AxisOrientedGeometry.__init__ fails when the raw vector
\* has not exactly 3 components and otherwise stores the raw vector divided
\* by its norm, a unit vector; no constructed instance has a non-unit axis.
C6_AxisAlwaysUnit ==
    /\ ret.op = "AxisOrientedGeometry.__init__" =>
          IF Len(RawAxis) # 3 THEN AxisInitFailed ELSE AxisIsNormalizedRaw
    /\ "AxisOrientedGeometry" \in Geo.done => HasUnitNorm(Geo.axis)

\* C6 amended: the same for every raw vector that is not the zero vector;
\* the 3-component zero vector is accepted and stores an axis whose
\* components are all nan.
C6_AxisUnitUnlessZero ==
    /\ ret.op = "AxisOrientedGeometry.__init__" =>
          IF Len(RawAxis) # 3 THEN AxisInitFailed
          ELSE IF RawNorm # Zero THEN AxisIsNormalizedRaw
          ELSE /\ ret.exc = "none"
               /\ \A i \in 1..3 : Geo.axis[i].num = NaN
    /\ "AxisOrientedGeometry" \in Geo.done =>
          /\ Len(Geo.axis) = 3
          /\ HasUnitNorm(Geo.axis) \/ \A i \in 1..3 : Geo.axis[i].num = NaN

\* the raw vector (0, 0, 2) was stored as (0, 0, 1)
C6_Witness ==
    /\ ret.op = "AxisOrientedGeometry.__init__"
    /\ RawAxis = <<0, 0, 2>>
    /\ Geo.axis = <<Plain(Zero), Plain(Zero), Plain(One)>>


Identity3 == << <<One, Zero, Zero>>, <<Zero, One, Zero>>, <<Zero, Zero, One>> >>

\* rotation_matrix was called with this angle
RotationCalled(angle) == Called("rotation_matrix", "geo") /\ ret.args[1] = angle

AngleIn(angle) ==
    Geo.motion_params.begin[1] <= angle /\ angle <= Geo.motion_params.end[1]

\* the stored axis is a unit vector (not the nan axis of a zero raw vector)
UnitAxis == Len(Geo.axis) = 3 /\ HasUnitNorm(Geo.axis)

\* C7 as claimed: rotation_matrix(0) is the identity for any unit axis,
\* whatever motion_params is.
C7_RotationAtZeroAlwaysIdentity ==
    (RotationCalled(0) /\ UnitAxis) => (ret.exc = "none" /\ ret.value = Identity3)

\* C7 amended: rotation_matrix(0) is the identity for any unit axis when
\* the angle 0 lies in motion_params; when it does not, the call raises
\* ValueError.
C7_RotationAtZeroInDomain ==
    RotationCalled(0) =>
        /\ ~AngleIn(0) => ret.exc = "ValueError"
        /\ (AngleIn(0) /\ UnitAxis) => (ret.exc = "none" /\ ret.value = Identity3)

\* rotation_matrix(0) returned the identity for an axis off the coordinate axes
C7_Witness ==
    /\ RotationCalled(0)
    /\ ret.exc = "none"
    /\ ret.value = Identity3
    /\ \A i \in 1..3 : Geo.axis[i].num # Zero

Transpose(m) == [i \in 1..3 |-> [j \in 1..3 |-> m[j][i]]]

MatMul(a, b) ==
    [i \in 1..3 |-> [j \in 1..3 |->
        FSum([k \in 1..3 |-> FMul(a[i][k], b[k][j])])]]

Det3(m) ==
    FAdd(FSub(FMul(m[1][1], FSub(FMul(m[2][2], m[3][3]), FMul(m[2][3], m[3][2]))),
              FMul(m[1][2], FSub(FMul(m[2][1], m[3][3]), FMul(m[2][3], m[3][1])))),
         FMul(m[1][3], FSub(FMul(m[2][1], m[3][2]), FMul(m[2][2], m[3][1]))))

\* the skew-symmetric cross-product matrix of a
CrossMatrix(a) ==
    << <<Zero, FNeg(a[3]), a[2]>>,
       <<a[3], Zero, FNeg(a[1])>>,
       <<FNeg(a[2]), a[1], Zero>> >>

\* cos(angle) I + (1 - cos(angle)) a (x) a + sin(angle) K
Rodrigues(a, angle) ==
    [i \in 1..3 |-> [j \in 1..3 |->
        FAdd(FAdd(IF i = j THEN Cos(angle) ELSE Zero,
                  FMul(FSub(One, Cos(angle)), FMul(a[i], a[j]))),
             FMul(Sin(angle), CrossMatrix(a)[i][j]))]]

\* m is a proper rotation about a: orthogonal, of determinant 1, fixing a
ProperRotationAbout(m, a) ==
    /\ MatMul(Transpose(m), m) = Identity3
    /\ Det3(m) = One
    /\ MatVec(m, a) = a

\* the matrix returned by the call last made is the right-handed Rodrigues
\* rotation about the stored axis
ReturnsRodrigues ==
    /\ ret.exc = "none"
    /\ ret.value = Rodrigues(AxisOf(Geo), ret.args[1])
    /\ ProperRotationAbout(ret.value, AxisOf(Geo))
    /\ (AxisOf(Geo) = <<Zero, Zero, One>> /\ ret.args[1] = 2) =>
          MatVec(ret.value, <<One, Zero, Zero>>) = <<Zero, One, Zero>>

\* C8 as claimed: for any unit axis and any angle, rotation_matrix returns
\* the Rodrigues matrix, a proper rotation following the right-hand rule.
C8_RodriguesForAnyAngle ==
    (Called("rotation_matrix", "geo") /\ UnitAxis) => ReturnsRodrigues

\* C8 amended: the same for any unit axis and any angle in motion_params;
\* for an angle outside motion_params the call raises ValueError.
C8_RodriguesForAnglesInDomain ==
    (Called("rotation_matrix", "geo") /\ UnitAxis) =>
        IF AngleIn(ret.args[1]) THEN ReturnsRodrigues
        ELSE ret.exc = "ValueError"

\* axis (0, 0, 1) and the angle pi/2 (index 2) took (1, 0, 0) to (0, 1, 0)
C8_Witness ==
    /\ RotationCalled(2)
    /\ ret.exc = "none"
    /\ AxisOf(Geo) = <<Zero, Zero, One>>
    /\ MatVec(ret.value, <<One, Zero, Zero>>) = <<Zero, One, Zero>>

\* the motion grid and detector grid of the instance the last call was made on
SelfMotionGrid ==
    IF ret.self = "par" THEN None ELSE objs[ret.self].motion_grid

SelfDetGrid ==
    IF ret.self = "par" THEN ParallelDetector.param_grid
    ELSE objs[ret.self].detector.param_grid

BothRegular ==
    SelfMotionGrid.type = "RegularGrid" /\ SelfDetGrid.type = "RegularGrid"

\* grid returned the motion grid with the detector grid appended: the
\* motion grid itself on the left when both are regular, else a plain
\* tensor grid of the motion grid's coordinate vectors
GridIsJoined ==
    /\ ret.exc = "none"
    /\ ret.log[1][2] = IF BothRegular THEN SelfMotionGrid
                       ELSE TensorGrid(SelfMotionGrid.coord_vectors)
    /\ ret.value.coord_vectors =
          SelfMotionGrid.coord_vectors \o SelfDetGrid.coord_vectors
    /\ ret.value.type = IF BothRegular THEN "RegularGrid" ELSE "TensorGrid"

SamplingFlagRight ==
    ret.op = "has_motion_sampling" => (ret.value <=> SelfMotionGrid # None)

\* C9 as claimed: for every geometry, with or without a motion grid, grid
\* is the joined grid, and has_motion_sampling tells whether motion_grid is
\* present.
C9_GridAlwaysJoined ==
    /\ ret.op = "grid" => GridIsJoined
    /\ SamplingFlagRight

\* C9 amended: for every geometry whose motion grid and detector grid are
\* both present, grid is the joined grid; without a motion grid it raises
\* AttributeError; has_motion_sampling tells whether motion_grid is present.
C9_GridJoinedWhenSampled ==
    /\ (ret.op = "grid" /\ SelfMotionGrid # None /\ SelfDetGrid # None) =>
          GridIsJoined
    /\ (ret.op = "grid" /\ SelfMotionGrid = None) => ret.exc = "AttributeError"
    /\ SamplingFlagRight

\* grid joined two regular grids into a regular grid
C9_Witness ==
    /\ ret.op = "grid"
    /\ BothRegular
    /\ ret.exc = "none"
    /\ ret.value = RegularGrid(<<<<1, 2>>, <<-1, 0, 1>>>>)

\* the operations that construct an instance or store into a cache
MutatingOps ==
    {"Geometry.__init__", "DivergentBeamGeometry.__init__",
     "AxisOrientedGeometry.__init__", "implementation_cache[key] = value"}

Constructed(o) == "_implementation_cache" \in o.attrs

\* the caches of the two instances are different dicts, and the dict a
\* constructor has just stored is empty
CachesOwned ==
    /\ (Constructed(Geo) /\ Constructed(Par)) =>
          Geo.implementation_cache # Par.implementation_cache
    /\ (ret.op \in {"Geometry.__init__", "DivergentBeamGeometry.__init__"}
          /\ ret.exc = "none") =>
          heap[objs[ret.self].implementation_cache] = {}

\* a step that is a method call or property read changes no instance and
\* no cache; a cache changes only in a store into it, which changes neither
\* another dict nor any instance; a constructor changes no existing dict
FrameStep ==
    /\ (ret'.op \notin MutatingOps) => (objs' = objs /\ heap' = heap)
    /\ ret'.op = "implementation_cache[key] = value" =>
          /\ objs' = objs
          /\ Len(heap') = Len(heap)
          /\ \A i \in 1..Len(heap) :
                i # objs[ret'.self].implementation_cache => heap'[i] = heap[i]
    /\ ret'.op \in MutatingOps \ {"implementation_cache[key] = value"} =>
          /\ \A i \in 1..Len(heap) : heap'[i] = heap[i]
          /\ \A id \in Ids : id # ret'.self => objs'[id] = objs[id]

\* C10: after construction no call, succeeding or failing, changes ndim,
\* motion_params, motion_grid, detector, axis or the contents of a cache;
\* a cache starts empty, belongs to one instance and changes only when a
\* caller stores into it.
C10_CallsLeaveStateUnchanged == [](CachesOwned) /\ [][FrameStep]_vars

\* det_to_src returned while the caches of the two instances differ
C10_Witness ==
    /\ Called("det_to_src", "geo")
    /\ ret.exc = "none"
    /\ heap[Geo.implementation_cache] = {"astra_projector"}
    /\ heap[Par.implementation_cache] = {}

=============================================================================
